---- MODULE Spec2Model ----
(***************************************************************************)
(* Magic-link authentication of py_life: auth_utils.py (create_magic_link, *)
(* validate_token, consume_token) over the users and magic_links tables of *)
(* py_life/models/core/models.py.                                          *)
(*                                                                         *)
(* Every call runs in a request worker, at most NumProcs at a time, with   *)
(* its own SQLAlchemy session.  The committed tables are shared; what a session    *)
(* has flushed but not committed is private to the call.  A call starts    *)
(* with its first storage round trip; its steps are the places where the   *)
(* source reads or writes the tables, so calls interleave between them,    *)
(* and each of them may raise.                                             *)
(* Time is counted in minutes; between two steps it may advance by a       *)
(* minute or by a whole validity period.                                   *)
(*                                                                         *)
(* Spec is the core alone.  SendSpec is send_magic_link alone, over its    *)
(* arguments and the SMTP_* environment.  AppSpec is the core with its     *)
(* callers: create_and_send_magic_link and the handlers of AuthState       *)
(* (auth_state.py).  AnomalySpec is the core on tables from which an       *)
(* account may be deleted from outside.  SoftSpec is one record of a model *)
(* with SoftDeleteMixin (mixins.py) in a session.                          *)
(***************************************************************************)
EXTENDS Integers, FiniteSets, Sequences, Bags, TLC

\* Bounds of the model.
NumProcs == 2
MaxLinks == 2
MaxTicks == 2
MaxCalls == 3

\* timedelta(minutes=15) of create_magic_link.
TTL == 15

\* NULL of the nullable used_at column.
NoTime == -1

\* Python's None, as a returned object.
None == [none |-> TRUE]

\* Email addresses as <<local part, domain>>.
Emails == {<<"a", "x.com">>, <<"b", "x.com">>}


VARIABLES
    clock,   \* datetime.utcnow(), in minutes
    users,   \* committed rows of table users
    links,   \* committed rows of table magic_links
    calls,   \* the calls in progress, a bag: of each its position and locals
    out,     \* what the latest step returned to its caller, if it returned
    wins,    \* per token string: how many consume_token calls returned True
    started, \* how many calls have been made so far
    app,     \* what the latest step did above the core: in the notifier, in
             \* create_and_send_magic_link or in a handler of AuthState
    rec      \* a record of a model with SoftDeleteMixin and TimestampMixin,
             \* loaded in a session: its columns, and whether it is dirty

vars == <<clock, users, links, calls, out, wins, started, app, rec>>

----------------------------------------------------------------------------
\* Models.

\* User(email=email, name=email.split('@')[0]) with the id the flush assigns.
User(id, email) == [id |-> id, email |-> email, name |-> email[1]]

\* MagicLink(token=token, expires_at=expires_at, user_id=user.id); used_at NULL.
MagicLink(token, expires_at, user_id) ==
    [token |-> token, expires_at |-> expires_at, used_at |-> NoTime,
     user_id |-> user_id]

\* is_expired with its comparison turned around.
is_expired_reversed(l, now) == now < l.expires_at

\* MagicLink.is_expired: datetime.utcnow() > self.expires_at
is_expired(l, now) == now > l.expires_at

\* is_used without its test of used_at.
is_used_never(l) == FALSE

\* MagicLink.is_used: self.used_at is not None
is_used(l) == l.used_at # NoTime

\* MagicLink.is_valid: not self.is_expired() and not self.is_used()
is_valid(l, now) == ~is_expired(l, now) /\ ~is_used(l)

\* A mark_as_used that also ends the validity of the link.
mark_as_used_expiring(l, now) == [l EXCEPT !.used_at = now, !.expires_at = now]

\* MagicLink.mark_as_used: self.used_at = datetime.utcnow()
mark_as_used(l, now) == [l EXCEPT !.used_at = now]

----------------------------------------------------------------------------
\* Storage.

\* The query for a user without its filter on the email.
UsersByEmailUnfiltered(email) == users

\* session.query(User).filter_by(email=email).first(): the matching rows.
UsersByEmail(email) == {u \in users : u.email = email}

\* The query for the owner of a link without its filter on the id.
UsersByIdUnfiltered(id) == users

\* session.query(User).filter_by(id=user_id).first(): the matching rows.
UsersById(id) == {u \in users : u.id = id}

\* session.query(MagicLink).filter_by(token=token).first(): the matching rows.
LinksByToken(token) == {l \in links : l.token = token}

\* Users flushed by open sessions and not yet committed.
PendingUsers == {c.user : c \in {d \in BagToSet(calls) : d.pending}}

\* users.email without its unique constraint.
EmailTakenNever(email) == FALSE

\* unique=True on users.email: an INSERT of an email a committed row holds
\* raises IntegrityError.
EmailTaken(email) == UsersByEmail(email) # {}

\* An INSERT of an email that another open transaction has inserted waits for
\* that transaction to end.
EmailLocked(email) == \E u \in PendingUsers : u.email = email

\* uuid.uuid4 of UUIDMixin.id: an id no row, committed or flushed, holds, be
\* it as its id or as the user_id of a link.
FreshUserId ==
    LET taken == {u.id : u \in users \cup PendingUsers} \cup {l.user_id : l \in links}
    IN  CHOOSE i \in 1..(Cardinality(taken) + 1) :
            /\ i \notin taken
            /\ \A j \in 1..(i - 1) : j \in taken

\* generate_token: secrets.token_urlsafe(32), a string no row holds.
generate_token ==
    LET taken == {l.token : l \in links}
    IN  CHOOSE i \in 1..(Cardinality(taken) + 1) :
            /\ i \notin taken
            /\ \A j \in 1..(i - 1) : j \in taken

\* f"{base_url}/verify?token={token}"
MagicUrl(token) == [base |-> "BASE_URL", path |-> "/verify?token=", token |-> token]

\* url.split("token="): the text before the marker and the text after it
\* (neither the base URL nor a token string holds the marker).
UrlPieces(url) == <<<<url.base, "/verify?">>, url.token>>

\* url.split("token=")[1]: what the holder of a link presents as the token.
TokenOfUrl(url) == UrlPieces(url)[2]

----------------------------------------------------------------------------
\* Calls.

\* A call as it starts: a fresh session, no locals yet.
Begin(op, email, token) ==
    [op |-> op, pc |-> "start", email |-> email, token |-> token,
     user |-> None, pending |-> FALSE]

\* The calls in progress with call c at its next position.
Moved(c, d) == (calls (-) SetToBag({c})) (+) SetToBag({d})

\* The calls in progress once call c has returned and closed its session.
Closed(c) == calls (-) SetToBag({c})

\* What the caller of a returning call sees: the arguments and the returned
\* value; and of the source, at: the position the call returned from, and
\* why: the branch that returned.
Returned(c, ret, why) ==
    [op |-> c.op, email |-> c.email, token |-> c.token, ret |-> ret,
     at |-> c.pc, why |-> why]

\* The latest step returned nothing to anyone.
NoReturn == Returned(Begin("none", <<>>, 0), None, "none")

\* Token strings a caller may present: the issued ones and 0, a string that
\* is never issued.
TokenInputs == {0} \cup {l.token : l \in links}

InFlightCreates == BagCardinality([c \in {d \in BagToSet(calls) : d.op = "create"} |-> calls[c]])

\* A request worker is free to take a call.
Free == BagCardinality(calls) < NumProcs /\ started < MaxCalls

\* How far datetime.utcnow() advances between two steps, in minutes.
TickSteps == {1, TTL}

\* The number of advances that led to the current time.
Ticks == (clock % TTL) + (clock \div TTL)

\* The latest step was a step of the core, or time advancing.
Quiet == [caller |-> "none"]

TypeOK ==
    /\ clock \in 0..(MaxTicks * TTL)
    /\ \A u \in users : u.id \in Nat /\ u.email \in Emails
    /\ \A l \in links : l.token \in 1..MaxLinks /\ l.used_at \in {NoTime} \cup 0..(MaxTicks * TTL)
    /\ IsABag(calls) /\ BagCardinality(calls) <= NumProcs
    /\ \A c \in BagToSet(calls) : c.pc \in {"c_flush", "c_commit", "k_mark"}
    /\ \A t \in DOMAIN wins : wins[t] \in 0..NumProcs
    /\ app.caller \in {"none", "send_magic_link", "create_and_send_magic_link",
                       "send_link", "verify"}
    /\ rec.is_deleted \in BOOLEAN /\ rec.dirty \in BOOLEAN
    /\ rec.deleted_at \in {NoTime} \cup 0..(MaxTicks * TTL)
    /\ rec.updated_at \in 0..(MaxTicks * TTL)

Init ==
    /\ clock = 0
    /\ users = {}
    /\ links = {}
    /\ calls = EmptyBag
    /\ out = NoReturn
    /\ wins = [t \in {} |-> 0]
    /\ started = 0
    /\ app = Quiet
    /\ rec = [is_deleted |-> FALSE, deleted_at |-> NoTime, updated_at |-> 0,
              dirty |-> FALSE]

\* datetime.utcnow() advances.
Tick(d) ==
    /\ Ticks < MaxTicks
    /\ clock' = clock + d
    /\ out' = NoReturn
    /\ UNCHANGED <<users, links, calls, wins>>
    /\ UNCHANGED started

----------------------------------------------------------------------------
\* create_magic_link(email)

\* user = session.query(User).filter_by(email=email).first()
CreateQuery(email) ==
    /\ Free
    /\ Cardinality(links) + InFlightCreates < MaxLinks
    /\ LET found == UsersByEmail(email)
           c == Begin("create", email, 0)
       IN  IF found # {}
           THEN \E u \in found :
                    calls' = calls (+) SetToBag({[c EXCEPT !.user = u, !.pc = "c_commit"]})
           ELSE calls' = calls (+) SetToBag({[c EXCEPT !.pc = "c_flush"]})
    /\ out' = NoReturn
    /\ UNCHANGED <<clock, users, links, wins>>
    /\ started' = started + 1

\* The query raises: except Exception: session.rollback(); return None
CreateQueryFail(email) ==
    /\ Free
    /\ out' = Returned(Begin("create", email, 0), None, "storage")
    /\ UNCHANGED <<clock, users, links, calls, wins>>
    /\ started' = started + 1

\* A flush that commits the inserted user at once (an autocommitting session).
CreateFlushAutocommit(c) ==
    /\ c.pc = "c_flush"
    /\ ~EmailLocked(c.email)
    /\ \E u \in {User(FreshUserId, c.email)} :
           /\ users' = users \cup {u}
           /\ calls' = Moved(c, [c EXCEPT !.user = u, !.pc = "c_commit"])
    /\ out' = NoReturn
    /\ UNCHANGED <<clock, links, wins, started>>

\* A flush that, when the email is taken, goes on with the account that took
\* it instead of giving up.
CreateFlushRetrying(c) ==
    /\ c.pc = "c_flush"
    /\ IF EmailTaken(c.email)
       THEN \E u \in UsersByEmail(c.email) :
                calls' = Moved(c, [c EXCEPT !.user = u, !.pc = "c_commit"])
       ELSE /\ ~EmailLocked(c.email)
            /\ calls' = Moved(c, [c EXCEPT !.user = User(FreshUserId, c.email),
                                           !.pending = TRUE, !.pc = "c_commit"])
    /\ out' = NoReturn
    /\ UNCHANGED <<clock, users, links, wins>>
    /\ UNCHANGED started

\* session.add(user); session.flush()
CreateFlush(c) ==
    /\ c.pc = "c_flush"
    /\ IF EmailTaken(c.email)
       THEN /\ calls' = Closed(c)
            /\ out' = Returned(c, None, "integrity")
       ELSE /\ ~EmailLocked(c.email)
            /\ calls' = Moved(c, [c EXCEPT !.user = User(FreshUserId, c.email),
                                           !.pending = TRUE, !.pc = "c_commit"])
            /\ out' = NoReturn
    /\ UNCHANGED <<clock, users, links, wins>>
    /\ UNCHANGED started

\* token = generate_token(); expires_at = datetime.utcnow() + timedelta(minutes=15)
\* magic_link = MagicLink(...); session.add(magic_link); session.commit(); return url
CreateCommit(c) ==
    /\ c.pc = "c_commit"
    /\ LET token == generate_token
           expires_at == clock + TTL
       IN  /\ links' = links \cup {MagicLink(token, expires_at, c.user.id)}
           /\ users' = IF c.pending THEN users \cup {c.user} ELSE users
           /\ wins' = [t \in DOMAIN wins \cup {token} |->
                        IF t \in DOMAIN wins THEN wins[t] ELSE 0]
           /\ calls' = Closed(c)
           /\ out' = Returned(c, MagicUrl(token), "ok")
    /\ UNCHANGED clock
    /\ UNCHANGED started

\* An except branch that rolls back and raises the error again.
CreateFailReraises(c) ==
    /\ c.pc \in {"c_flush", "c_commit"}
    /\ calls' = Closed(c)
    /\ out' = Returned(c, [raised |-> "SQLAlchemyError"], "storage")
    /\ UNCHANGED <<clock, users, links, wins>>
    /\ UNCHANGED started

\* The flush or the commit raises: session.rollback(); return None
CreateFail(c) ==
    /\ c.pc \in {"c_flush", "c_commit"}
    /\ calls' = Closed(c)
    /\ out' = Returned(c, None, "storage")
    /\ UNCHANGED <<clock, users, links, wins>>
    /\ UNCHANGED started

----------------------------------------------------------------------------
\* validate_token(token)

\* What validate_token returns.
ValidateResult(valid, user, magic_link) ==
    [is_valid |-> valid, user |-> user, magic_link |-> magic_link]

\* validate_token without its check that the owner of the link was found.
validate_token_unowned(token, now) ==
    LET found == LinksByToken(token)
    IN  IF found = {}
        THEN [ret |-> ValidateResult(FALSE, None, None), why |-> "not_found"]
        ELSE LET magic_link == CHOOSE l \in found : TRUE
                 owner == UsersById(magic_link.user_id)
             IN  IF ~is_valid(magic_link, now)
                 THEN [ret |-> ValidateResult(FALSE, None, None),
                       why |-> IF is_expired(magic_link, now)
                               THEN "expired" ELSE "used"]
                 ELSE [ret |-> ValidateResult(TRUE,
                                              IF owner = {} THEN None
                                              ELSE CHOOSE u \in owner : TRUE,
                                              magic_link),
                       why |-> "ok"]

\* The body of validate_token on the committed rows at time now: the returned
\* tuple, and in why the check that rejected the token (the branch taken).
validate_token(token, now) ==
    LET found == LinksByToken(token)
    IN  IF found = {}
        THEN [ret |-> ValidateResult(FALSE, None, None), why |-> "not_found"]
        ELSE LET magic_link == CHOOSE l \in found : TRUE
                 owner == UsersById(magic_link.user_id)
             IN  IF ~is_valid(magic_link, now)
                 THEN [ret |-> ValidateResult(FALSE, None, None),
                       why |-> IF is_expired(magic_link, now)
                               THEN "expired" ELSE "used"]
                 ELSE IF owner = {}
                 THEN [ret |-> ValidateResult(FALSE, None, None), why |-> "orphaned"]
                 ELSE [ret |-> ValidateResult(TRUE, CHOOSE u \in owner : TRUE, magic_link),
                       why |-> "ok"]

\* A validate_token that marks the token it accepts.
ValidateConsuming(token) ==
    /\ Free
    /\ LET r == validate_token(token, clock)
       IN  /\ out' = Returned(Begin("validate", <<>>, token), r.ret, r.why)
           /\ links' = IF r.ret.is_valid
                       THEN {IF l.token = token THEN mark_as_used(l, clock) ELSE l :
                                l \in links}
                       ELSE links
    /\ UNCHANGED <<clock, users, calls, wins>>
    /\ started' = started + 1

\* validate_token called on its own: its queries and checks, in its own session.
Validate(token) ==
    /\ Free
    /\ LET r == validate_token(token, clock)
       IN  out' = Returned(Begin("validate", <<>>, token), r.ret, r.why)
    /\ UNCHANGED <<clock, users, links, calls, wins>>
    /\ started' = started + 1

\* A query raises: except Exception: return False, None, None
ValidateFail(token) ==
    /\ Free
    /\ out' = Returned(Begin("validate", <<>>, token),
                        ValidateResult(FALSE, None, None), "storage")
    /\ UNCHANGED <<clock, users, links, calls, wins>>
    /\ started' = started + 1

----------------------------------------------------------------------------
\* consume_token(token)

\* What consume_token returns.
ConsumeResult(success, user) == [success |-> success, user |-> user]

\* is_valid, user, magic_link = validate_token(token)
\* if not is_valid: return False, None
ConsumeValidate(token) ==
    /\ Free
    /\ LET r == validate_token(token, clock)
           c == Begin("consume", <<>>, token)
       IN  IF ~r.ret.is_valid
           THEN /\ out' = Returned(c, ConsumeResult(FALSE, None), r.why)
                /\ UNCHANGED calls
           ELSE /\ calls' = calls (+) SetToBag({[c EXCEPT !.user = r.ret.user, !.pc = "k_mark"]})
                /\ out' = NoReturn
    /\ UNCHANGED <<clock, users, links, wins>>
    /\ started' = started + 1

\* validate_token caught a storage error and returned (False, None, None).
ConsumeValidateFail(token) ==
    /\ Free
    /\ out' = Returned(Begin("consume", <<>>, token), ConsumeResult(FALSE, None), "storage")
    /\ UNCHANGED <<clock, users, links, calls, wins>>
    /\ started' = started + 1

\* An UPDATE without its WHERE clause: every row is marked.
UpdateUsedEveryRow(rows, token, now) == {mark_as_used(l, now) : l \in rows}

\* The UPDATE that the commit flushes: SET used_at = ? WHERE id = ?, on the
\* row that the second lookup loaded and mark_as_used changed.
UpdateUsed(rows, token, now) ==
    {IF l.token = token THEN mark_as_used(l, now) ELSE l : l \in rows}

\* magic_link_obj = session.query(MagicLink).filter_by(token=token).first()
\* magic_link_obj.mark_as_used(); session.commit(); return True, user
ConsumeCommit(c) ==
    /\ c.pc = "k_mark"
    /\ LinksByToken(c.token) # {}
    /\ links' = UpdateUsed(links, c.token, clock)
    /\ wins' = [wins EXCEPT ![c.token] = @ + 1]
    /\ calls' = Closed(c)
    /\ out' = Returned(c, ConsumeResult(TRUE, c.user), "ok")
    /\ UNCHANGED <<clock, users>>
    /\ UNCHANGED started

\* The lookup or the commit raises: session.rollback(); return False, None
ConsumeFail(c) ==
    /\ c.pc = "k_mark"
    /\ calls' = Closed(c)
    /\ out' = Returned(c, ConsumeResult(FALSE, None), "storage")
    /\ UNCHANGED <<clock, users, links, wins>>
    /\ UNCHANGED started

----------------------------------------------------------------------------
\* The core: the three operations of auth_utils.py on the tables, called
\* directly, and the clock.
Next ==
    \/ \E d \in TickSteps : Tick(d) /\ app' = Quiet /\ UNCHANGED rec
    \/ \E email \in Emails : CreateQuery(email) /\ app' = Quiet /\ UNCHANGED rec
    \/ \E email \in Emails : CreateQueryFail(email) /\ app' = Quiet /\ UNCHANGED rec
    \/ \E c \in BagToSet(calls) : CreateFlush(c) /\ app' = Quiet /\ UNCHANGED rec
    \/ \E c \in BagToSet(calls) : CreateCommit(c) /\ app' = Quiet /\ UNCHANGED rec
    \/ \E c \in BagToSet(calls) : CreateFail(c) /\ app' = Quiet /\ UNCHANGED rec
    \/ \E token \in TokenInputs : Validate(token) /\ app' = Quiet /\ UNCHANGED rec
    \/ \E token \in TokenInputs : ValidateFail(token) /\ app' = Quiet /\ UNCHANGED rec
    \/ \E token \in TokenInputs : ConsumeValidate(token) /\ app' = Quiet /\ UNCHANGED rec
    \/ \E token \in TokenInputs : ConsumeValidateFail(token) /\ app' = Quiet /\ UNCHANGED rec
    \/ \E c \in BagToSet(calls) : ConsumeCommit(c) /\ app' = Quiet /\ UNCHANGED rec
    \/ \E c \in BagToSet(calls) : ConsumeFail(c) /\ app' = Quiet /\ UNCHANGED rec

Spec == Init /\ [][Next]_vars

\* Something outside the core deletes the row of an account: magic_links.user_id
\* is a plain foreign key, and the links of the account stay behind.
DeleteUser(u) ==
    /\ started < MaxCalls
    /\ users' = users \ {u}
    /\ out' = NoReturn
    /\ UNCHANGED <<clock, links, calls, wins>>
    /\ started' = started + 1

\* The core on tables in which accounts may disappear.
AnomalyNext ==
    \/ Next
    \/ \E u \in users : DeleteUser(u) /\ app' = Quiet /\ UNCHANGED rec

AnomalySpec == Init /\ [][AnomalyNext]_vars

----------------------------------------------------------------------------
\* send_magic_link(email, url)

\* A Python str above the core, as the sequence of its pieces: "" is Text(<<>>).
Text(pieces) == [text |-> pieces]

\* A test for None only, which takes "" for a value.
TruthyUnlessNone(v) == v # None

\* bool(v) of `not email`, `not url`, `if url`, `if smtp_server and ...`
Truthy(v) == v # None /\ v # Text(<<>>)

\* os.getenv of the SMTP_* variables: None when unset, else the text set.
\* The values tried for each variable, and the environments made of them.
EnvValues ==
    [SMTP_SERVER |-> <<None, Text(<<>>), Text(<<"smtp.x.com">>)>>,
     SMTP_PORT |-> <<None, Text(<<>>), Text(<<"587">>)>>,
     SMTP_USER |-> <<None, Text(<<"user">>)>>,
     SMTP_PASS |-> <<None, Text(<<"secret">>)>>]

Envs == [SMTP_SERVER : 1..3, SMTP_PORT : 1..3, SMTP_USER : 1..2, SMTP_PASS : 1..2]

Getenv(e) == [name \in DOMAIN EnvValues |-> EnvValues[name][e[name]]]

\* int(os.getenv('SMTP_PORT', 587)): 587 when unset, the number when numeric;
\* otherwise int raises ValueError.
PortParses(env) == env.SMTP_PORT = None \/ env.SMTP_PORT = Text(<<"587">>)

\* if smtp_server and smtp_user and smtp_pass
Configured(env) ==
    Truthy(env.SMTP_SERVER) /\ Truthy(env.SMTP_USER) /\ Truthy(env.SMTP_PASS)

\* How the SMTP conversation (connect, starttls, login, send_message) ends.
SmtpOutcomes == {"sent", "SMTPException", "Exception"}

\* What send_magic_link returns, and of the source, via: the branch that
\* returned, and connected: whether SMTP(smtp_server, smtp_port) was reached.
SendResult(ret, via, connected) == [ret |-> ret, via |-> via, connected |-> connected]

\* The body of send_magic_link.
send_magic_link(email, url, env, smtp) ==
    IF ~Truthy(email) \/ ~Truthy(url)
    THEN SendResult(FALSE, "missing", FALSE)
    ELSE IF ~PortParses(env)
    THEN SendResult(FALSE, "error", FALSE)
    ELSE IF Configured(env)
    THEN CASE smtp = "sent" -> SendResult(TRUE, "smtp", TRUE)
           [] smtp = "SMTPException" -> SendResult(FALSE, "smtp_error", TRUE)
           [] OTHER -> SendResult(FALSE, "error", TRUE)
    ELSE SendResult(TRUE, "console", FALSE)

\* Arguments a caller may pass to send_magic_link.
SendEmails == <<None, Text(<<>>), Text(<<"a", "x.com">>), Text(<<"b", "x.com">>)>>
SendUrls == <<None, Text(<<>>)>> \o [t \in 1..MaxLinks |-> MagicUrl(t)]

\* send_magic_link called on its own.
Send(email, url, env, smtp) ==
    /\ LET r == send_magic_link(email, url, env, smtp)
       IN  app' = [caller |-> "send_magic_link", email |-> email, url |-> url,
                   env |-> env, sent |-> r]
    /\ UNCHANGED <<clock, users, links, calls, out, wins, started>>

\* The notifier on its own, over its arguments and the environment.
SendNext ==
    \E i \in DOMAIN SendEmails, j \in DOMAIN SendUrls, e \in Envs, smtp \in SmtpOutcomes :
        Send(SendEmails[i], SendUrls[j], Getenv(e), smtp) /\ UNCHANGED rec

SendSpec == Init /\ [][SendNext]_vars

----------------------------------------------------------------------------
\* create_and_send_magic_link(email)

\* What send_magic_link(email, url) may return, over the environments and
\* the ways the SMTP conversation may end.
SendResults(email, url) ==
    {send_magic_link(email, url, Getenv(e), smtp) : e \in Envs, smtp \in SmtpOutcomes}

\* A create_and_send_magic_link that drops what send_magic_link returns.
create_and_send_unchecked(url, sent) == Truthy(url)

\* if url: return send_magic_link(email, url)
\* return False
\* with sent what send_magic_link returns if it is called.
create_and_send_magic_link(url, sent) ==
    IF Truthy(url) THEN sent.ret ELSE FALSE

\* A create_and_send_magic_link that takes the link back when it could not be
\* sent.
CreateAndSendRevoking(sent) ==
    /\ out.op = "create"
    /\ app' = [caller |-> "create_and_send_magic_link", email |-> Text(out.email),
               url |-> out.ret,
               sent |-> IF Truthy(out.ret) THEN sent ELSE None,
               ret |-> create_and_send_magic_link(out.ret, sent)]
    /\ links' = IF Truthy(out.ret) /\ ~sent.ret
                THEN {l \in links : l.token # TokenOfUrl(out.ret)}
                ELSE links
    /\ out' = NoReturn
    /\ UNCHANGED <<clock, users, calls, wins, started>>

\* create_and_send_magic_link once create_magic_link has returned url to it:
\* the step that follows the return of a create_magic_link call.
CreateAndSend(sent) ==
    /\ out.op = "create"
    /\ app' = [caller |-> "create_and_send_magic_link", email |-> Text(out.email),
               url |-> out.ret,
               sent |-> IF Truthy(out.ret) THEN sent ELSE None,
               ret |-> create_and_send_magic_link(out.ret, sent)]
    /\ out' = NoReturn
    /\ UNCHANGED <<clock, users, links, calls, wins, started>>

----------------------------------------------------------------------------
\* AuthState (auth_state.py)

\* A field of the state that a handler did not assign.
Unset == [unset |-> TRUE]

SentMessage == Text(<<"Magic link sent! Check your inbox.">>)
LoginMessage == Text(<<"Login successful!">>)
ExpiredMessage == Text(<<"Link expired", "request a new one.">>)

\* str(e) of the AttributeError that looking up auth_utils.verify_token raises:
\* auth_utils defines and exports no verify_token.
NoVerifyToken ==
    Text(<<"module", "'auth_utils'", "has", "no", "attribute", "'verify_token'">>)

\* str(e) of an exception that run_in_thread itself raises.
ThreadFailure == Text(<<"cannot", "schedule", "new", "futures">>)

\* 'expired' in error_message or 'used' in error_message, then the assignment
\* of the uniform text; on the texts above, which hold neither word.
ErrorText(error_message) ==
    IF \E i \in 1..Len(error_message.text) : error_message.text[i] \in {"expired", "used"}
    THEN ExpiredMessage
    ELSE error_message

\* What a handler left behind: the fields it assigned, the session key it
\* set and the redirect it returned.
Outcome(message, error, user_id, redirect) ==
    [message |-> message, error |-> error, user_id |-> user_id, redirect |-> redirect]

\* rx.redirect(path)
Redirect(path) == [path |-> path]

\* The body of AuthState.send_link from where create_magic_link has returned
\* link: send_magic_link is called with it and returns sent, which is dropped,
\* and message is set; if run_in_thread raises, the except branch sets error.
SendLinkOutcome(link, sent, raised) ==
    IF raised
    THEN Outcome(Unset, ErrorText(ThreadFailure), Unset, Unset)
    ELSE Outcome(SentMessage, Unset, Unset, Unset)

\* AuthState.send_link once create_magic_link has returned link to it.
SendLink(sent, raised) ==
    /\ out.op = "create"
    /\ app' = [caller |-> "send_link", email |-> Text(out.email), link |-> out.ret,
               sent |-> IF raised THEN None ELSE sent,
               did |-> SendLinkOutcome(out.ret, sent, raised)]
    /\ out' = NoReturn
    /\ UNCHANGED <<clock, users, links, calls, wins, started>>

\* A verify handler that shows the reason of the rejection.
AuthVerifyOutcomeLeaky(token, now) ==
    Outcome(Unset, Text(<<validate_token(token, now).why>>), Unset, Redirect("/login"))

\* The body of AuthState.verify: auth_utils.verify_token raises AttributeError
\* before anything is called, and the except branch handles it.
AuthVerifyOutcome(token, now) ==
    Outcome(Unset, ErrorText(NoVerifyToken), Unset, Redirect("/login"))

\* AuthState.verify(token).  It reaches no table, so where it runs among the
\* steps of the calls of the core makes no difference: it runs between them.
AuthVerify(token) ==
    /\ calls = EmptyBag
    /\ app' = [caller |-> "verify", token |-> token,
               did |-> AuthVerifyOutcome(token, clock)]
    /\ out' = NoReturn
    /\ UNCHANGED <<clock, users, links, calls, wins, started>>

\* The core with its callers.
AppNext ==
    \/ Next
    \/ /\ out.op = "create"
       /\ \E sent \in SendResults(Text(out.email), out.ret) : CreateAndSend(sent)
       /\ UNCHANGED rec
    \/ /\ out.op = "create"
       /\ \E sent \in SendResults(Text(out.email), out.ret), raised \in BOOLEAN :
              SendLink(sent, raised)
       /\ UNCHANGED rec
    \/ \E token \in TokenInputs : AuthVerify(token) /\ UNCHANGED rec

AppSpec == Init /\ [][AppNext]_vars

----------------------------------------------------------------------------
\* SoftDeleteMixin and the before_update listeners (mixins.py)

\* SoftDeleteMixin.soft_delete: is_deleted = True; deleted_at = utcnow()
soft_delete(r, now) == [r EXCEPT !.is_deleted = TRUE, !.deleted_at = now]

\* A restore that leaves deleted_at as it is.
restore_flag_only(r) == [r EXCEPT !.is_deleted = FALSE]

\* SoftDeleteMixin.restore: is_deleted = False; deleted_at = None
restore(r) == [r EXCEPT !.is_deleted = FALSE, !.deleted_at = NoTime]

\* update_timestamp: target.updated_at = datetime.utcnow()
update_timestamp(r, now) == [r EXCEPT !.updated_at = now]

\* update_deleted_at without its elif branch.
update_deleted_at_set_only(r, now) ==
    IF r.is_deleted /\ r.deleted_at = NoTime
    THEN [r EXCEPT !.deleted_at = now]
    ELSE r

\* update_deleted_at: deleted_at is set if the record is deleted and has none,
\* and cleared if the record is not deleted.
update_deleted_at(r, now) ==
    IF r.is_deleted /\ r.deleted_at = NoTime
    THEN [r EXCEPT !.deleted_at = now]
    ELSE IF ~r.is_deleted
    THEN [r EXCEPT !.deleted_at = NoTime]
    ELSE r

\* An attribute of the loaded record was assigned: the session holds it dirty.
Dirty(r) == [r EXCEPT !.dirty = TRUE]

\* record.soft_delete()
SoftDelete ==
    /\ rec' = Dirty(soft_delete(rec, clock))
    /\ UNCHANGED <<clock, users, links, calls, out, wins, started, app>>

\* record.restore()
Restore ==
    /\ rec' = Dirty(restore(rec))
    /\ UNCHANGED <<clock, users, links, calls, out, wins, started, app>>

\* record.is_deleted = value, assigned directly.
SetIsDeleted(value) ==
    /\ rec' = Dirty([rec EXCEPT !.is_deleted = value])
    /\ UNCHANGED <<clock, users, links, calls, out, wins, started, app>>

\* The flush of the dirty record: before_update runs both listeners, then the
\* UPDATE is sent.
FlushUpdate ==
    /\ rec.dirty
    /\ rec' = [update_deleted_at(update_timestamp(rec, clock), clock)
                  EXCEPT !.dirty = FALSE]
    /\ UNCHANGED <<clock, users, links, calls, out, wins, started, app>>

\* One soft-deletable record in one session, and the clock.
SoftNext ==
    \/ \E d \in TickSteps : Tick(d) /\ app' = Quiet /\ UNCHANGED rec
    \/ SoftDelete
    \/ Restore
    \/ \E value \in BOOLEAN : SetIsDeleted(value)
    \/ FlushUpdate

SoftSpec == Init /\ [][SoftNext]_vars

----------------------------------------------------------------------------
\* Properties.

\* The committed row of a token string (there is at most one).
Row(token) == CHOOSE l \in links : l.token = token

\* The committed accounts with an email.
AccountsOf(email) == {u \in users : u.email = email}

\* C1: of the concurrent consume_token calls for one token exactly one returns
\* success: no token has two consume_token calls that returned True.
C1_AtMostOneSuccess == \A t \in DOMAIN wins : wins[t] <= 1

\* C2: once a consume_token call for a token has returned success, every call
\* of validate_token or consume_token for it that starts later returns failure
\* with no account, whatever the time.
C2_RejectedAfterConsumption ==
    [][\A t \in TokenInputs :
          (/\ t \in DOMAIN wins
           /\ wins[t] >= 1
           /\ Validate(t) \/ ConsumeValidate(t))
          => \/ out'.op = "validate" /\ out'.ret = ValidateResult(FALSE, None, None)
             \/ out'.op = "consume" /\ out'.ret = ConsumeResult(FALSE, None)]_vars

\* A verification of a consumed token was rejected as used within its expiry
\* window, with no other call in progress.
C2_Witness ==
    /\ out.op \in {"validate", "consume"}
    /\ out.why = "used"
    /\ wins[out.token] = 1
    /\ clock < Row(out.token).expires_at
    /\ calls = EmptyBag

\* C3: used_at of a link token is written at most once: once it is not NULL it
\* never changes again.
C3_UsedAtWrittenOnce ==
    [][\A l \in links :
          l.used_at # NoTime =>
              \E k \in links' : k.token = l.token /\ k.used_at = l.used_at]_vars

\* C4: a link token is valid exactly if used_at is NULL and the current time
\* is before expires_at; at the instant of expires_at it is expired.
C4_ValidIffUnusedBeforeExpiry ==
    \A l \in links :
        is_valid(l, clock) <=> (l.used_at = NoTime /\ clock < l.expires_at)

\* C5: no token is consumed at or after its expiry: used_at, once set, is
\* before expires_at.
C5_ConsumedBeforeExpiry ==
    \A l \in links : l.used_at # NoTime => l.used_at < l.expires_at

\* C6: concurrent create_magic_link calls for a new email never commit two
\* accounts with that email, and once one of them has gone through (or has
\* lost on the unique constraint) exactly one account has it.
C6_OneAccountPerEmail ==
    /\ \A e \in Emails : Cardinality(AccountsOf(e)) <= 1
    /\ (out.op = "create" /\ out.why \in {"ok", "integrity"})
           => Cardinality(AccountsOf(out.email)) = 1

\* A call that found no account when it looked lost the insert to a
\* concurrent call for the same email, and one account exists.
C6_Witness ==
    /\ out.op = "create"
    /\ out.why = "integrity"
    /\ Cardinality(AccountsOf(out.email)) = 1

\* C7: every successful create_magic_link(E) attaches its token to the one
\* account with email E, the same account as every earlier token issued for E;
\* the number of accounts with email E stays 1.
C7_SameAccountOnReissue ==
    (out.op = "create" /\ out.why = "ok") =>
        LET l == Row(out.ret.token)
        IN  /\ \E u \in users : AccountsOf(out.email) = {u} /\ l.user_id = u.id
            /\ \A k \in links :
                   (\E u \in {v \in users : v.id = k.user_id} : u.email = out.email)
                       => k.user_id = l.user_id

\* A second issuance for an email, run after the first had returned, has
\* returned: two tokens, one account.
C7_Witness ==
    /\ out.op = "create"
    /\ out.why = "ok"
    /\ out.at = "c_commit"
    /\ calls = EmptyBag
    /\ Cardinality({k \in links : k.user_id = Row(out.ret.token).user_id}) = 2
    /\ Cardinality(AccountsOf(out.email)) = 1

\* C8: issuance is all or nothing: a create_magic_link call that returns None
\* leaves the committed tables as they were, and in every committed state
\* every account has a token and every token has its account.
C8_IssuanceAllOrNothing ==
    /\ [](/\ \A u \in users : \E l \in links : l.user_id = u.id
          /\ \A l \in links : (\E u \in users : u.id = l.user_id))
    /\ [][(out'.op = "create" /\ out'.ret = None)
              => (users' = users /\ links' = links)]_vars

\* A first issuance failed at the commit, after its account had been flushed:
\* no account with that email is committed.
C8_Witness ==
    /\ out.op = "create"
    /\ out.ret = None
    /\ out.at = "c_commit"
    /\ AccountsOf(out.email) = {}

\* The reasons a verification is rejected for.
Reasons == {"not_found", "expired", "used", "orphaned"}

\* C9: a failed verification tells its caller the reason: two rejections for
\* different reasons return different values.
C9_ReasonInReturnValue ==
    \A t \in TokenInputs :
        LET r == validate_token(t, clock)
        IN  (/\ out.op = "validate"
             /\ out.why \in Reasons
             /\ r.why \in Reasons
             /\ r.why # out.why) => r.ret # out.ret

\* C10: a successful consume_token(T1) leaves the row of every other token T2
\* as it was, and with it what a verification of T2 returns and how often T2
\* has been consumed.
C10_OtherTokensUntouched ==
    [][\A c \in BagToSet(calls) :
          ConsumeCommit(c) =>
              \A l \in links :
                  l.token # c.token =>
                      /\ l \in links'
                      /\ validate_token(l.token, clock)' = validate_token(l.token, clock)
                      /\ wins'[l.token] = wins[l.token]]_vars

\* A token has been consumed while a second, unused token of the same account
\* is still valid.
C10_Witness ==
    /\ out.op = "consume"
    /\ out.why = "ok"
    /\ \E l \in links :
           /\ l.token # out.token
           /\ l.user_id = Row(out.token).user_id
           /\ validate_token(l.token, clock).ret.is_valid
           /\ wins[l.token] = 0

\* C11: the token after 'token=' in the URL that a successful
\* create_magic_link(E) returned verifies to the account with email E: it does
\* so when the URL is returned, the owner of a token never changes, and every
\* successful validate_token or consume_token returns the owner of its token.
C11_TokenRoundTrip ==
    /\ []((out.op = "create" /\ out.why = "ok") =>
              LET r == validate_token(TokenOfUrl(out.ret), clock)
              IN  /\ r.ret.is_valid
                  /\ r.ret.user \in users
                  /\ r.ret.user.email = out.email)
    /\ []((out.op \in {"validate", "consume"} /\ out.why = "ok") =>
              /\ out.ret.user \in users
              /\ out.ret.user.id = Row(out.token).user_id)
    /\ [][/\ users \subseteq users'
          /\ \A l \in links :
                 \E k \in links' : k.token = l.token /\ k.user_id = l.user_id]_vars

\* With two accounts in the table, a token issued for the second email has
\* been consumed and the call returned the account with that email.
C11_Witness ==
    /\ out.op = "consume"
    /\ out.why = "ok"
    /\ Cardinality(users) = 2
    /\ out.ret.user.email = <<"b", "x.com">>
    /\ out.ret.user.id = Row(out.token).user_id

\* C12: a notification that fails does not undo the issuance: the step of
\* create_and_send_magic_link or of send_link that hands the link over leaves
\* the tables as they are, and when send_magic_link has returned False for a
\* committed token, the token is unused and verifies to the account of the
\* email it was issued for.
C12_SendFailureKeepsIssuance ==
    /\ []((/\ app.caller = "create_and_send_magic_link"
            /\ Truthy(app.url)
            /\ ~app.sent.ret) =>
              LET r == validate_token(TokenOfUrl(app.url), clock)
              IN  /\ \E l \in links : l.token = TokenOfUrl(app.url) /\ l.used_at = NoTime
                  /\ r.ret.is_valid
                  /\ r.ret.user.email = app.email.text)
    /\ [][app'.caller \in {"create_and_send_magic_link", "send_link"}
              => (users' = users /\ links' = links)]_vars

\* The SMTP conversation failed for a link that had just been committed; the
\* token verifies.
C12_Witness ==
    /\ app.caller = "create_and_send_magic_link"
    /\ Truthy(app.url)
    /\ app.sent.via = "smtp_error"
    /\ ~app.ret
    /\ validate_token(TokenOfUrl(app.url), clock).ret.is_valid

\* C13: the caller can tell 'token created but sending failed' from 'no token
\* created': what create_and_send_magic_link returns, and what send_link
\* leaves in AuthState, after a failed send of a committed link differs from
\* what it returns or leaves when create_magic_link returned None.
C13_SendFailureDistinct ==
    /\ (/\ app.caller = "create_and_send_magic_link"
        /\ Truthy(app.url)
        /\ ~app.sent.ret)
           => app.ret # create_and_send_magic_link(None, None)
    /\ (/\ app.caller = "send_link"
        /\ Truthy(app.link)
        /\ app.sent # None
        /\ ~app.sent.ret)
           => app.did # SendLinkOutcome(None, SendResult(FALSE, "missing", FALSE), FALSE)

\* C14: with SMTP_SERVER, SMTP_USER or SMTP_PASS not configured,
\* send_magic_link with a non-empty email and URL logs the link to the
\* console, opens no SMTP connection and returns True.
C14_FallbackWithoutTransport ==
    (/\ app.caller = "send_magic_link"
     /\ Truthy(app.email)
     /\ Truthy(app.url)
     /\ ~Configured(app.env))
        => app.sent = SendResult(TRUE, "console", FALSE)

\* C15: AuthState.verify binds the session key user_id only on a successful
\* consumption: for a valid token it consumes the token, stores the id of the
\* owning account and redirects to '/'; otherwise it stores nothing and
\* redirects to '/login'.
C15_VerifyBindsOnConsumption ==
    [][\A t \in TokenInputs :
          AuthVerify(t) =>
              LET r == validate_token(t, clock)
              IN  IF r.ret.is_valid
                  THEN /\ app'.did.user_id = Text(<<r.ret.user.id>>)
                       /\ app'.did.redirect = Redirect("/")
                       /\ \E l \in links' : l.token = t /\ l.used_at # NoTime
                  ELSE /\ app'.did.user_id = Unset
                       /\ app'.did.redirect = Redirect("/login")
                       /\ links' = links]_vars

\* C16: when create_magic_link returned None inside AuthState.send_link, the
\* handler ends with an error set and without the success message; the success
\* message is set only when a link was created and the notifier took it.
C16_IssuanceFailureShown ==
    app.caller = "send_link" =>
        /\ ~Truthy(app.link) => (app.did.error # Unset /\ app.did.message = Unset)
        /\ app.did.message = SentMessage =>
               (Truthy(app.link) /\ app.sent # None /\ app.sent.ret)

\* The rows of tokens that are expired and unused, and of tokens that are
\* used and not expired.
ExpiredRows == {l \in links : l.used_at = NoTime /\ clock > l.expires_at}
UsedRows == {l \in links : l.used_at # NoTime /\ clock <= l.expires_at}

\* C17: what AuthState.verify shows is the same for an expired token and for
\* a used one: the same error text and the redirect to '/login', and a verify
\* that ran on either left exactly that.
C17_ExpiredAndUsedLookAlike ==
    \A l1 \in ExpiredRows, l2 \in UsedRows :
        /\ AuthVerifyOutcome(l1.token, clock) = AuthVerifyOutcome(l2.token, clock)
        /\ AuthVerifyOutcome(l1.token, clock).redirect = Redirect("/login")
        /\ (app.caller = "verify" /\ app.token \in {l1.token, l2.token})
               => app.did = AuthVerifyOutcome(l2.token, clock)

\* verify ran on an expired token while another token is used and not
\* expired.
C17_Witness ==
    /\ app.caller = "verify"
    /\ \E l1 \in ExpiredRows : l1.token = app.token
    /\ UsedRows # {}

\* The value each operation returns for a failure.
FailureValue(op) ==
    CASE op = "create" -> None
      [] op = "validate" -> ValidateResult(FALSE, None, None)
      [] op = "consume" -> ConsumeResult(FALSE, None)

\* C18: no storage error leaves the core: a call in which a query, a flush or
\* a commit raised returns its failure value (None, (False, None, None),
\* (False, None)), the tables are as they were before the step, and the call's
\* session is closed, as it is after every return.
C18_StorageErrorsContained ==
    /\ [](out.why = "storage" => out.ret = FailureValue(out.op))
    /\ [][/\ out'.why = "storage" => (users' = users /\ links' = links)
          /\ out'.op # "none" =>
                 BagCardinality(calls') =
                     BagCardinality(calls) - (IF out'.at = "start" THEN 0 ELSE 1)]_vars

\* The commit of a consume_token call raised: the call returned (False, None)
\* and the token is still unused.
C18_Witness ==
    /\ out.op = "consume"
    /\ out.why = "storage"
    /\ out.at = "k_mark"
    /\ out.ret = ConsumeResult(FALSE, None)
    /\ Row(out.token).used_at = NoTime
    /\ calls = EmptyBag

\* The unused, unexpired tokens whose account is not in the table.
Orphaned == {l.token : l \in {k \in links : /\ k.used_at = NoTime
                                             /\ clock <= k.expires_at
                                             /\ \A u \in users : u.id # k.user_id}}

\* C19: a token whose owning account cannot be found is rejected without
\* being consumed: validate_token and consume_token return their failure
\* values for it, the row keeps used_at NULL and no consumption is under way.
C19_OrphanedRejectedUnconsumed ==
    [][\A t \in Orphaned :
          (Validate(t) \/ ConsumeValidate(t)) =>
              /\ out'.ret = FailureValue(out'.op)
              /\ links' = links
              /\ calls' = calls]_vars

\* consume_token was called for an unused, unexpired token whose account is
\* gone, and returned; the row is unused.
C19_Witness ==
    /\ out.op = "consume"
    /\ out.why = "orphaned"
    /\ out.token \in Orphaned
    /\ Row(out.token).used_at = NoTime
    /\ calls = EmptyBag

\* C20: a link token created when the clock reads t has expires_at = t + 15
\* minutes, and expires_at never changes; as long as the token is unused (and
\* its account is there) it is accepted at every time before t + 15 and
\* rejected as expired from t + 16 on.
C20_FifteenMinuteWindow ==
    /\ []((out.op = "create" /\ out.why = "ok") =>
              \E l \in links : l.token = TokenOfUrl(out.ret) /\ l.expires_at = clock + 15)
    /\ [](\A l \in links :
              (l.used_at = NoTime /\ \E u \in users : u.id = l.user_id) =>
                  LET r == validate_token(l.token, clock)
                  IN  /\ clock < l.expires_at => r.ret.is_valid
                      /\ clock >= l.expires_at + 1 =>
                             (r.ret = ValidateResult(FALSE, None, None) /\ r.why = "expired"))
    /\ [][\A l \in links :
              \E k \in links' : k.token = l.token /\ k.expires_at = l.expires_at]_vars

\* Sixteen minutes after its creation an unused token has been presented to
\* validate_token and rejected as expired.
C20_Witness ==
    /\ out.op = "validate"
    /\ out.why = "expired"
    /\ out.ret = ValidateResult(FALSE, None, None)
    /\ Row(out.token).used_at = NoTime
    /\ clock = Row(out.token).expires_at + 1

\* C21: the core never deletes or rebinds a record: the committed accounts
\* stay, every link token stays with its token string, user_id and expires_at
\* (only used_at may change), every token refers to exactly one committed
\* account, and no two rows have the same token string.
C21_RecordsOnlyGrow ==
    /\ [](\A l \in links :
              /\ Cardinality({u \in users : u.id = l.user_id}) = 1
              /\ \A k \in links : k.token = l.token => k = l)
    /\ [][/\ users \subseteq users'
          /\ \A l \in links :
                 \E k \in links' : /\ k.token = l.token
                                    /\ k.user_id = l.user_id
                                    /\ k.expires_at = l.expires_at]_vars

\* Two accounts and two tokens are committed and one of the tokens has been
\* consumed a while after it was created.
C21_Witness ==
    /\ Cardinality(users) = 2
    /\ Cardinality(links) = 2
    /\ out.op = "consume"
    /\ out.why = "ok"
    /\ Row(out.token).used_at > 0
    /\ Row(out.token).used_at < Row(out.token).expires_at

\* C22: create_and_send_magic_link(E) returns True exactly if
\* create_magic_link(E) returned the URL of a committed link and
\* send_magic_link(E, URL) returned True; when create_magic_link returned None
\* it returns False and send_magic_link is not called.
C22_TrueIffCreatedAndSent ==
    app.caller = "create_and_send_magic_link" =>
        /\ Truthy(app.url) <=> \E l \in links : app.url = MagicUrl(l.token)
        /\ Truthy(app.url) <=> app.sent # None
        /\ app.ret <=> (Truthy(app.url) /\ app.sent.ret)
        /\ ~Truthy(app.url) => ~app.ret

\* A link was committed, the SMTP conversation went through, and
\* create_and_send_magic_link returned True.
C22_Witness ==
    /\ app.caller = "create_and_send_magic_link"
    /\ app.ret
    /\ app.sent.via = "smtp"
    /\ \E l \in links : app.url = MagicUrl(l.token)

\* C23: used_at of a token changes only in the step in which a consume_token
\* call for that token returns success; a step in which validate_token
\* returns, or consume_token returns failure, leaves the accounts and the link
\* tokens as they were; and a consume_token call that found its token valid
\* and whose storage does not fail returns success with the account.
C23_UsedAtOnlyBySuccessfulConsume ==
    /\ [][\A l \in links :
              (\E k \in links' : k.token = l.token /\ k.used_at # l.used_at)
                  => (out'.op = "consume" /\ out'.token = l.token
                      /\ out'.ret.success /\ out'.ret.user # None)]_vars
    /\ [][(\/ out'.op = "validate"
           \/ out'.op = "consume" /\ ~out'.ret.success)
              => (users' = users /\ links' = links)]_vars
    /\ [][\A c \in BagToSet(calls) :
              ConsumeCommit(c) =>
                  /\ out'.ret.success
                  /\ \E k \in links' : k.token = c.token /\ k.used_at = clock]_vars

\* A token was validated twice and accepted the second time as well: it is
\* unused.
C23_Witness ==
    /\ out.op = "validate"
    /\ out.why = "ok"
    /\ started = 3
    /\ Cardinality(links) = 1
    /\ Row(out.token).used_at = NoTime

\* The link tokens of the accounts with an email.
TokensOf(email) == {l \in links : \E u \in AccountsOf(email) : u.id = l.user_id}

\* C24: a create_magic_link(E) call that saw no account for E and comes to
\* insert one when another call has committed it loses as a whole: it returns
\* None, it is over (no retry with the account that exists now), and the
\* tables are as before; when the two racing calls were the only ones, E has
\* exactly one account and one token afterwards.
C24_LoserRolledBack ==
    /\ [][\A c \in BagToSet(calls) :
              (c.pc = "c_flush" /\ AccountsOf(c.email) # {} /\ CreateFlush(c)) =>
                  /\ out'.op = "create"
                  /\ out'.email = c.email
                  /\ out'.ret = None
                  /\ calls' = calls (-) SetToBag({c})
                  /\ users' = users
                  /\ links' = links]_vars
    /\ []((out.op = "create" /\ out.why = "integrity" /\ started = 2) =>
              /\ Cardinality(AccountsOf(out.email)) = 1
              /\ Cardinality(TokensOf(out.email)) = 1
              /\ calls = EmptyBag)

\* Two calls for a new email raced; the loser has returned None: one account,
\* one token.
C24_Witness ==
    /\ out.op = "create"
    /\ out.why = "integrity"
    /\ out.ret = None
    /\ started = 2
    /\ Cardinality(TokensOf(out.email)) = 1

\* C25: whenever the email or the URL is empty or None, send_magic_link
\* returns False from its first check: no SMTP connection and no console
\* fallback, whatever the environment; so the None that create_magic_link
\* returns on failure is never delivered.
C25_NothingSentWithoutEmailOrUrl ==
    (/\ app.caller = "send_magic_link"
     /\ \/ app.email = None
        \/ app.email = Text(<<>>)
        \/ app.url = None
        \/ app.url = Text(<<>>))
        => /\ ~app.sent.ret
           /\ ~app.sent.connected
           /\ app.sent.via = "missing"

\* send_magic_link was called with an email, with None for the URL and with a
\* complete SMTP configuration, and returned False without connecting.
C25_Witness ==
    /\ app.caller = "send_magic_link"
    /\ app.email = Text(<<"a", "x.com">>)
    /\ app.url = None
    /\ Configured(app.env)
    /\ PortParses(app.env)
    /\ app.sent = SendResult(FALSE, "missing", FALSE)

\* C26: once the update of a soft-deletable record is flushed, deleted_at is
\* set exactly if is_deleted is true; restore() leaves is_deleted False and
\* deleted_at None; soft_delete() leaves is_deleted True, also on a record
\* that is deleted already, and the two methods alone keep deleted_at in step
\* with is_deleted.
C26_DeletedAtIffIsDeleted ==
    /\ [](~rec.dirty => (rec.deleted_at # NoTime <=> rec.is_deleted))
    /\ [][Restore => (~rec'.is_deleted /\ rec'.deleted_at = NoTime)]_vars
    /\ [][SoftDelete => (rec'.is_deleted /\ rec'.deleted_at = clock)]_vars

\* The update of a deleted record has been flushed, some time after the
\* record was loaded, at the time its deleted_at shows.
C26_Witness ==
    /\ ~rec.dirty
    /\ rec.is_deleted
    /\ rec.deleted_at = rec.updated_at
    /\ rec.deleted_at > 0

====
